---- MODULE Spec2Model ----
(***************************************************************************)
(* Model of the Jellyfin / Radarr / Sonarr cross-checker:                  *)
(*   main.py            the process: configuration, collection, serving    *)
(*   src/service.py     ArrCleanerService: collect_data, _parse_movie,     *)
(*                      _parse_series, _generate_report                    *)
(*   src/clients/*.py   the three clients (calls that fail soft)           *)
(*   src/web/app.py     the web layer around the global current_report     *)
(*                                                                         *)
(* Python values are encoded as follows.                                   *)
(*   Optional[T]   None is <<>>, a present value v is <<v>>                *)
(*   list          a sequence                                              *)
(*   dict          [order, map]: the keys in insertion order and the       *)
(*                 key -> value function (Python dicts iterate in          *)
(*                 insertion order)                                        *)
(*   object        MovieInfo / SeriesInfo objects are shared by reference  *)
(*                 between UserWatchData and the report buckets: a bucket  *)
(*                 holds references <<u, i>> (user position, position in   *)
(*                 that user's watched list) into report.users.            *)
(* The fields imdb_id, path and sonarr_title_slug are copied through and   *)
(* read by nothing in the program; they are left out of the records.       *)
(***************************************************************************)
EXTENDS Integers, Sequences, FiniteSets, TLC

\* ------------------------------------------------------------------ bounds
\* Number of users the media server may return.
MaxUsers == 2
\* Number of episodes of a series.
MaxEpisodes == 2
\* Number of items of a catalog list in the catalog-lookup specification.
MaxCatalog == 2

\* ------------------------------------------------------- Python value helpers
None == <<>>
Some(v) == <<v>>
Val(o) == o[1]

\* dict.get(key, default) on a field that may be missing
GetOr(o, default) == IF o = None THEN default ELSE Val(o)

Digit(d) ==
  CASE d = 0 -> "0" [] d = 1 -> "1" [] d = 2 -> "2" [] d = 3 -> "3" [] d = 4 -> "4"
    [] d = 5 -> "5" [] d = 6 -> "6" [] d = 7 -> "7" [] d = 8 -> "8" [] OTHER -> "9"

RECURSIVE IntStr(_)
\* str(n) of a non-negative int: its decimal digits
IntStr(n) == IF n < 10 THEN Digit(n) ELSE IntStr(n \div 10) \o Digit(n % 10)

\* str(x) / f"{x}" of an Optional[int]: None formats as the text None
PyStr(o) == IF o = None THEN "None" ELSE IntStr(Val(o))

\* truth value of an Optional[int]: None and 0 are false
TruthyInt(o) == o # None /\ Val(o) # 0

\* truth value of an Optional[str]: None and the empty string are false
TruthyStr(o) == o # None /\ Val(o) # ""

RECURSIVE Flatten(_)
Flatten(ss) == IF ss = <<>> THEN <<>> ELSE Head(ss) \o Flatten(Tail(ss))

RECURSIVE SubSeqs(_)
\* the sub-lists of a list, order kept
SubSeqs(s) ==
  IF s = <<>> THEN {<<>>}
  ELSE LET rest == SubSeqs(Tail(s)) IN rest \cup {<<Head(s)>> \o r : r \in rest}

SeqsUpTo(S, n) == UNION {[1..k -> S] : k \in 0..n}

\* ------------------------------------------------------------ Python dicts
EmptyDict == [order |-> <<>>, map |-> <<>>]

HasKey(d, k) == k \in DOMAIN d.map

\* d[k] = v
DictSet(d, k, v) ==
  IF HasKey(d, k) THEN [d EXCEPT !.map[k] = v]
  ELSE [order |-> Append(d.order, k), map |-> (k :> v) @@ d.map]

\* defaultdict(list): d[k].append(v)
DictAppend(d, k, v) ==
  IF HasKey(d, k) THEN [d EXCEPT !.map[k] = Append(@, v)]
  ELSE [order |-> Append(d.order, k), map |-> (k :> <<v>>) @@ d.map]

\* d.get(k): None when the key is absent
DictGet(d, k) == IF HasKey(d, k) THEN Some(d.map[k]) ELSE None

\* ---------------------------------------------------------- media-server client
\* ep.get("UserData", {}).get("Played", False)
EpisodePlayed(ep) ==
  LET user_data == GetOr(ep.UserData, [Played |-> None])
  IN GetOr(user_data.Played, FALSE)

\* mutant: every episode is counted as watched
PlayedCountAll(episodes) == Len(episodes)

RECURSIVE PlayedCount(_)
\* sum(1 for ep in episodes if <played>)
PlayedCount(episodes) ==
  IF episodes = <<>> THEN 0
  ELSE (IF EpisodePlayed(Head(episodes)) THEN 1 ELSE 0) + PlayedCount(Tail(episodes))

\* is_fully_watched = watched_episodes == total_episodes and total_episodes > 0
FullyWatchedFlag(watched_episodes, total_episodes) ==
  watched_episodes = total_episodes /\ total_episodes > 0

\* JellyfinClient.is_series_fully_watched, given what get_series_episodes returned
\* (the empty list when the fetch failed)
IsSeriesFullyWatched(fetched) ==
  IF fetched = <<>>
  THEN [is_fully_watched |-> FALSE, watched_count |-> 0, total_count |-> 0]
  ELSE LET total_episodes == Len(fetched)
           watched_episodes == PlayedCount(fetched)
       IN [is_fully_watched |-> FullyWatchedFlag(watched_episodes, total_episodes),
           watched_count |-> watched_episodes,
           total_count |-> total_episodes]

\* ------------------------------------------------------------ catalog lookups
\* mutant: the filter tests for None only, so an identifier of 0 is kept
RadarrKeepNonNull(movie) == movie.tmdbId # None

\* the filter of the radarr_tmdb_lookup comprehension: if movie.get("tmdbId")
RadarrKeep(movie) == TruthyInt(movie.tmdbId)

\* the filter of the sonarr_tvdb_lookup comprehension: if series.get("tvdbId")
SonarrKeep(series) == TruthyInt(series.tvdbId)

RECURSIVE RadarrLookupFrom(_, _)
RadarrLookupFrom(radarr_movies, acc) ==
  IF radarr_movies = <<>> THEN acc
  ELSE LET movie == Head(radarr_movies)
       IN RadarrLookupFrom(Tail(radarr_movies),
            IF RadarrKeep(movie) THEN DictSet(acc, PyStr(movie.tmdbId), movie) ELSE acc)

\* {str(movie.get("tmdbId")): movie for movie in radarr_movies if movie.get("tmdbId")}
RadarrTmdbLookup(radarr_movies) == RadarrLookupFrom(radarr_movies, EmptyDict)

RECURSIVE SonarrLookupFrom(_, _)
SonarrLookupFrom(sonarr_series, acc) ==
  IF sonarr_series = <<>> THEN acc
  ELSE LET series == Head(sonarr_series)
       IN SonarrLookupFrom(Tail(sonarr_series),
            IF SonarrKeep(series) THEN DictSet(acc, PyStr(series.tvdbId), series) ELSE acc)

\* {str(series.get("tvdbId")): series for series in sonarr_series if series.get("tvdbId")}
SonarrTvdbLookup(sonarr_series) == SonarrLookupFrom(sonarr_series, EmptyDict)

\* radarr_lookup.get(str(tmdb_id)) if tmdb_id else None   (tmdb_id is a str already)
RadarrFind(tmdb_id, radarr_lookup) ==
  IF TruthyStr(tmdb_id) THEN DictGet(radarr_lookup, Val(tmdb_id)) ELSE None

\* sonarr_lookup.get(str(tvdb_id)) if tvdb_id else None
SonarrFind(tvdb_id, sonarr_lookup) ==
  IF TruthyStr(tvdb_id) THEN DictGet(sonarr_lookup, Val(tvdb_id)) ELSE None

\* ArrCleanerService._parse_movie
ParseMovie(movie, radarr_lookup) ==
  LET tmdb_id == movie.Tmdb
      radarr_movie == RadarrFind(tmdb_id, radarr_lookup)
  IN [title |-> GetOr(movie.Name, "Unknown"),
      year |-> movie.ProductionYear,
      tmdb_id |-> tmdb_id,
      in_radarr |-> radarr_movie # None,
      radarr_id |-> IF radarr_movie # None THEN Val(radarr_movie).id ELSE None,
      jellyfin_id |-> movie.Id,
      watched_by_users |-> <<>>]

\* mutant: a series with no watched episode is kept
SeriesNeverSkipped(status) == FALSE

\* if watched_count == 0: return None
SeriesSkipped(status) == status.watched_count = 0

\* ArrCleanerService._parse_series; fetched is what get_series_episodes returned for
\* this series and user.  The result is None (skipped) or a SeriesInfo.
ParseSeries(series, fetched, sonarr_lookup) ==
  LET tvdb_id == series.Tvdb
      sonarr_series == SonarrFind(tvdb_id, sonarr_lookup)
      status == IsSeriesFullyWatched(fetched)
  IN IF SeriesSkipped(status) THEN None
     ELSE Some([title |-> GetOr(series.Name, "Unknown"),
                year |-> series.ProductionYear,
                tvdb_id |-> tvdb_id,
                in_sonarr |-> sonarr_series # None,
                sonarr_id |-> IF sonarr_series # None THEN Val(sonarr_series).id ELSE None,
                jellyfin_id |-> series.Id,
                total_episodes |-> status.total_count,
                watched_episodes |-> status.watched_count,
                is_fully_watched |-> status.is_fully_watched,
                watched_by_users |-> <<>>])

\* ------------------------------------------------------------ _generate_report
\* Report(): the defaults of the model
EmptyReport ==
  [users |-> <<>>,
   movies_watched_by_all |-> <<>>, movies_watched_by_some |-> <<>>,
   series_fully_watched_by_all |-> <<>>, series_fully_watched_by_some |-> <<>>,
   series_partially_watched_by_all |-> <<>>, series_partially_watched_by_some |-> <<>>,
   jellyfin_url |-> None, radarr_url |-> None, sonarr_url |-> None]

\* mutant: the grouping key is the media server's item id
ItemKeyById(item) == item.jellyfin_id

\* mutant: the key without the delimiter between title and year
ItemKeyUndelimited(item) == item.title \o PyStr(item.year)

\* key = f"{movie.title}_{movie.year}" (and the same for a series)
ItemKey(item) == item.title \o "_" \o PyStr(item.year)

\* the references, in iteration order, of
\*   for user_data in users_data: for movie in user_data.watched_movies
MovieRefs(users_data) ==
  Flatten([u \in 1..Len(users_data) |->
             [i \in 1..Len(users_data[u].watched_movies) |-> <<u, i>>]])

\*   for user_data in users_data: for series in user_data.watched_series
SeriesRefs(users_data) ==
  Flatten([u \in 1..Len(users_data) |->
             [i \in 1..Len(users_data[u].watched_series) |-> <<u, i>>]])

RECURSIVE GroupMovies(_, _, _)
\* the first loop: movie_watchers[key].append(username); movie_data[key] = movie
GroupMovies(users_data, refs, acc) ==
  IF refs = <<>> THEN acc
  ELSE LET r == Head(refs)
           user_data == users_data[r[1]]
           key == ItemKey(user_data.watched_movies[r[2]])
       IN GroupMovies(users_data, Tail(refs),
            [movie_watchers |-> DictAppend(acc.movie_watchers, key, user_data.username),
             movie_data |-> DictSet(acc.movie_data, key, r)])

\* series_data[key] = series: one dict for both groupings
SeriesDataSet(series_data, key, r) == DictSet(series_data, key, r)

RECURSIVE GroupSeries(_, _, _)
\* the second loop: the username goes to series_watchers_full or
\* series_watchers_partial by series.is_fully_watched; series_data[key] = series
GroupSeries(users_data, refs, acc) ==
  IF refs = <<>> THEN acc
  ELSE LET r == Head(refs)
           user_data == users_data[r[1]]
           series == user_data.watched_series[r[2]]
           key == ItemKey(series)
       IN GroupSeries(users_data, Tail(refs),
            [series_watchers_full |->
               IF series.is_fully_watched
               THEN DictAppend(acc.series_watchers_full, key, user_data.username)
               ELSE acc.series_watchers_full,
             series_watchers_partial |->
               IF series.is_fully_watched
               THEN acc.series_watchers_partial
               ELSE DictAppend(acc.series_watchers_partial, key, user_data.username),
             series_data |-> SeriesDataSet(acc.series_data, key, r)])

\* if len(watchers) == total_users
WatchedByAll(watchers, total_users) == Len(watchers) = total_users

RECURSIVE CategorizeMovies(_, _, _, _, _)
\* for key, watchers in movie_watchers.items(): the movie object movie_data[key] gets
\* watched_by_users = watchers and is appended to one of the two movie buckets.
\* acc is [users, by_all, by_some]: the objects as mutated so far and the buckets.
CategorizeMovies(keys, movie_watchers, movie_data, total_users, acc) ==
  IF keys = <<>> THEN acc
  ELSE LET key == Head(keys)
           watchers == movie_watchers.map[key]
           r == movie_data.map[key]
           users == [acc.users EXCEPT
                       ![r[1]].watched_movies[r[2]].watched_by_users = watchers]
       IN CategorizeMovies(Tail(keys), movie_watchers, movie_data, total_users,
            IF WatchedByAll(watchers, total_users)
            THEN [users |-> users, by_all |-> Append(acc.by_all, r), by_some |-> acc.by_some]
            ELSE [users |-> users, by_all |-> acc.by_all, by_some |-> Append(acc.by_some, r)])

RECURSIVE CategorizeSeries(_, _, _, _, _)
\* for key, watchers in series_watchers_<full|partial>.items(): the series object
\* series_data[key] gets watched_by_users = watchers and is appended to a bucket
CategorizeSeries(keys, series_watchers, series_data, total_users, acc) ==
  IF keys = <<>> THEN acc
  ELSE LET key == Head(keys)
           watchers == series_watchers.map[key]
           r == series_data.map[key]
           users == [acc.users EXCEPT
                       ![r[1]].watched_series[r[2]].watched_by_users = watchers]
       IN CategorizeSeries(Tail(keys), series_watchers, series_data, total_users,
            IF WatchedByAll(watchers, total_users)
            THEN [users |-> users, by_all |-> Append(acc.by_all, r), by_some |-> acc.by_some]
            ELSE [users |-> users, by_all |-> acc.by_all, by_some |-> Append(acc.by_some, r)])

\* ArrCleanerService._generate_report
GenerateReport(users_data, urls) ==
  IF users_data = <<>>
  THEN [EmptyReport EXCEPT !.jellyfin_url = urls.jellyfin, !.radarr_url = urls.radarr,
                           !.sonarr_url = urls.sonarr]
  ELSE
    LET gm == GroupMovies(users_data, MovieRefs(users_data),
                [movie_watchers |-> EmptyDict, movie_data |-> EmptyDict])
        gs == GroupSeries(users_data, SeriesRefs(users_data),
                [series_watchers_full |-> EmptyDict, series_watchers_partial |-> EmptyDict,
                 series_data |-> EmptyDict])
        total_users == Len(users_data)
        cm == CategorizeMovies(gm.movie_watchers.order, gm.movie_watchers, gm.movie_data,
                total_users, [users |-> users_data, by_all |-> <<>>, by_some |-> <<>>])
        cf == CategorizeSeries(gs.series_watchers_full.order, gs.series_watchers_full,
                gs.series_data, total_users,
                [users |-> cm.users, by_all |-> <<>>, by_some |-> <<>>])
        cp == CategorizeSeries(gs.series_watchers_partial.order, gs.series_watchers_partial,
                gs.series_data, total_users,
                [users |-> cf.users, by_all |-> <<>>, by_some |-> <<>>])
    IN [users |-> cp.users,
        movies_watched_by_all |-> cm.by_all, movies_watched_by_some |-> cm.by_some,
        series_fully_watched_by_all |-> cf.by_all,
        series_fully_watched_by_some |-> cf.by_some,
        series_partially_watched_by_all |-> cp.by_all,
        series_partially_watched_by_some |-> cp.by_some,
        jellyfin_url |-> urls.jellyfin, radarr_url |-> urls.radarr,
        sonarr_url |-> urls.sonarr]

\* the MovieInfo object a movie bucket entry refers to
MovieAt(report, r) == report.users[r[1]].watched_movies[r[2]]

\* the SeriesInfo object a series bucket entry refers to
SeriesAt(report, r) == report.users[r[1]].watched_series[r[2]]

\* Report.model_dump(): nested dicts; every bucket entry is dumped as the dict of the
\* object it refers to
ModelDump(report) ==
  LET movies(b) == [i \in 1..Len(b) |-> MovieAt(report, b[i])]
      series(b) == [i \in 1..Len(b) |-> SeriesAt(report, b[i])]
  IN [users |-> report.users,
      movies_watched_by_all |-> movies(report.movies_watched_by_all),
      movies_watched_by_some |-> movies(report.movies_watched_by_some),
      series_fully_watched_by_all |-> series(report.series_fully_watched_by_all),
      series_fully_watched_by_some |-> series(report.series_fully_watched_by_some),
      series_partially_watched_by_all |-> series(report.series_partially_watched_by_all),
      series_partially_watched_by_some |-> series(report.series_partially_watched_by_some),
      jellyfin_url |-> report.jellyfin_url, radarr_url |-> report.radarr_url,
      sonarr_url |-> report.sonarr_url]

\* ------------------------------------------------------------- the environment
\* What the three external services hold.  Two movies and two series share their
\* title and year under different identifiers; one title contains the delimiter.
Movie1 == [Id |-> "m1", Name |-> Some("a"), ProductionYear |-> Some(1), Tmdb |-> Some("1")]
Movie2 == [Id |-> "m2", Name |-> Some("a"), ProductionYear |-> Some(1), Tmdb |-> Some("2")]
Movie3 == [Id |-> "m3", Name |-> Some("a_1"), ProductionYear |-> None, Tmdb |-> None]
Series1 == [Id |-> "s1", Name |-> Some("x"), ProductionYear |-> Some(1), Tvdb |-> Some("1")]
Series2 == [Id |-> "s2", Name |-> Some("x"), ProductionYear |-> Some(1), Tvdb |-> Some("2")]

RadarrCatalog == <<[tmdbId |-> Some(1), id |-> Some(10)]>>
SonarrCatalog == <<[tvdbId |-> Some(1), id |-> Some(20)]>>

\* The libraries a run is checked against: movies only, series only, and both.
Libraries ==
  {[movies |-> <<Movie1, Movie2, Movie3>>, series |-> <<>>],
   [movies |-> <<>>, series |-> <<Series1, Series2>>],
   [movies |-> <<Movie1, Movie3>>, series |-> <<Series1>>]}

ConfigUrls == [jellyfin |-> Some("http://jellyfin"), radarr |-> Some("http://radarr"),
               sonarr |-> Some("http://sonarr")]

\* GET /Users: the first n users of the server
ServerUsers(n) == [i \in 1..n |-> [Id |-> "id" \o IntStr(i), Name |-> "user" \o IntStr(i)]]

PlayedEpisode == [UserData |-> Some([Played |-> Some(TRUE)])]
UnplayedEpisode == [UserData |-> Some([Played |-> Some(FALSE)])]

\* What get_series_episodes may return for one series and user: every episode of the
\* series with its Played flag, or the empty list (no episodes, or a failed fetch)
EpisodeResponses == {<<>>} \cup [1..MaxEpisodes -> {PlayedEpisode, UnplayedEpisode}]

\* Episode dicts in general: UserData or its Played flag may be missing
EpisodeValues ==
  {[UserData |-> None], [UserData |-> Some([Played |-> None])], PlayedEpisode, UnplayedEpisode}

\* ------------------------------------------------------------ calls and exits
\* How a network call ends: "ok" is a response the client can use; "http_error" is an
\* httpx.HTTPError (transport error or error status), which every client method
\* catches; "bad_body" is a response whose body is not what the caller reads
\* (response.json() fails, a field is missing, a catalog list is not a list): the
\* exception is not an httpx.HTTPError and leaves collect_data
Caught == {"ok", "http_error"}

\* try: ... return result / except httpx.HTTPError: ... return []
SoftFail(outcome, result) == IF outcome = "ok" THEN result ELSE <<>>

\* one network call: the client method, what it was called for, how it ended
Call(name, arg, outcome) == [call |-> name, arg |-> arg, outcome |-> outcome]

\* the functions and client methods that are counted
CallNames ==
  {"collect_data", "set_report", "run_web_server", "authenticate", "test_connection",
   "get_users", "get_all_movies", "get_all_series", "get_watched_movies",
   "get_watched_series", "get_series_episodes"}

NoCalls == [c \in CallNames |-> 0]

\* the counts after one more call of fn
Entered(counts, fn) == [counts EXCEPT ![fn] = @ + 1]

\* the counts after the network calls of trace
Count(counts, trace) ==
  [c \in CallNames |-> counts[c] + Cardinality({i \in 1..Len(trace) : trace[i].call = c})]

\* mutant: every handler of main returns 0
ExitStatusZero(exception) == 0

\* main: what main() returns for the exception that left the try block; without an
\* exception main returns None and exit(None) is status 0
ExitStatus(exception) ==
  IF exception = "FileNotFoundError" THEN 1
  ELSE IF exception = "KeyboardInterrupt" THEN 0
  ELSE IF exception = "Exception" THEN 1
  ELSE 0

\* main: what the handler of the exception prints last
ConsoleLine(exception, printed) ==
  IF exception = "FileNotFoundError"
  THEN Some("Please create the required configuration files.")
  ELSE IF exception = "KeyboardInterrupt" THEN Some("Shutting down...")
  ELSE IF exception = "Exception" THEN Some("An error occurred")
  ELSE printed

\* ------------------------------------------------------------------- the state
VARIABLES
  pc,                  \* where main() is
  library,             \* what the external services hold in this run
  config_files,        \* config.yaml and credentials.yaml: "ok", "missing", "invalid"
  calls,               \* history: how often each function or client method was called
  outcomes,            \* history: the network calls of the latest step
  console,             \* the last line main's exception handlers printed (None if none)
  access_token,        \* JellyfinClient.access_token (None until authenticate succeeds)
  jellyfin_users,      \* collect_data: jellyfin_users
  radarr_tmdb_lookup,  \* collect_data: radarr_tmdb_lookup
  sonarr_tvdb_lookup,  \* collect_data: sonarr_tvdb_lookup
  users_data,          \* collect_data: users_data
  zero_watched,        \* history: per processed user, the ids of the series for which
                       \* is_series_fully_watched returned a watched count of 0
  report,              \* main: report (None until collect_data has returned)
  current_report,      \* src/web/app.py: the global current_report
  last_response,       \* the response to the latest request (None before the first)
  exit_status,         \* what main() returned (None while it runs)
  episodes,            \* an episode list handed to is_series_fully_watched
  watch_status,        \* what is_series_fully_watched returned for it
  catalog,             \* a catalog list handed to the lookup construction
  probe,               \* a media-server item handed to _parse_movie / _parse_series
  parsed               \* what the parse returned for it

vars == <<pc, library, config_files, calls, outcomes, console, access_token, jellyfin_users, radarr_tmdb_lookup,
          sonarr_tvdb_lookup, users_data, zero_watched, report, current_report, last_response, exit_status,
          episodes, watch_status, catalog, probe, parsed>>

collectVars == <<access_token, jellyfin_users, radarr_tmdb_lookup, sonarr_tvdb_lookup,
                 users_data, zero_watched>>
webVars == <<current_report, last_response>>
envVars == <<library, config_files>>
traceVars == <<calls, outcomes, console>>
unitVars == <<episodes, watch_status, catalog, probe, parsed>>

\* the state of a process that has not run anything yet
Fresh ==
  /\ access_token = None
  /\ jellyfin_users = <<>>
  /\ radarr_tmdb_lookup = EmptyDict
  /\ sonarr_tvdb_lookup = EmptyDict
  /\ users_data = <<>>
  /\ zero_watched = <<>>
  /\ report = None
  /\ current_report = None
  /\ last_response = None
  /\ exit_status = None
  /\ calls = NoCalls
  /\ outcomes = <<>>
  /\ console = None

\* nothing has been handed to the functions checked on their own
Idle ==
  /\ episodes = <<>>
  /\ watch_status = None
  /\ catalog = <<>>
  /\ probe = None
  /\ parsed = None

Init ==
  /\ pc = "load_config"
  /\ library \in Libraries
  /\ config_files \in {"ok", "missing", "invalid"}
  /\ Fresh
  /\ Idle

\* -------------------------------------------------------------------- main()
\* main() returns: the process and everything it held are gone
Exit(exception, counts, trace) ==
  /\ pc' = "exited"
  /\ exit_status' = Some(ExitStatus(exception))
  /\ console' = ConsoleLine(exception, console)
  /\ calls' = Count(counts, trace)
  /\ outcomes' = trace
  /\ access_token' = None
  /\ jellyfin_users' = <<>>
  /\ radarr_tmdb_lookup' = EmptyDict
  /\ sonarr_tvdb_lookup' = EmptyDict
  /\ users_data' = <<>>
  /\ zero_watched' = <<>>
  /\ report' = None
  /\ current_report' = None
  /\ last_response' = None
  /\ UNCHANGED <<envVars, unitVars>>

\* AppConfig(...): both files load, or one is missing (FileNotFoundError, return 1),
\* or one is invalid (any other exception, return 1)
LoadConfig ==
  /\ pc = "load_config"
  /\ IF config_files = "ok"
     THEN /\ pc' = "authenticate"
          /\ UNCHANGED <<envVars, traceVars, collectVars, report, webVars, exit_status,
                         unitVars>>
     ELSE Exit(IF config_files = "missing" THEN "FileNotFoundError" ELSE "Exception",
               calls, <<>>)

\* collect_data: if not self.jellyfin.authenticate(): return Report()
Authenticate ==
  /\ pc = "authenticate"
  /\ \E outcome \in Caught :
       /\ outcomes' = <<Call("authenticate", "", outcome)>>
       /\ IF outcome = "ok"
          THEN /\ access_token' = Some("token")
               /\ pc' = "test_connections"
               /\ report' = report
          ELSE /\ access_token' = access_token
               /\ pc' = "set_report"
               /\ report' = Some(EmptyReport)
  /\ calls' = Count(Entered(calls, "collect_data"), outcomes')
  /\ UNCHANGED <<envVars, console, jellyfin_users, radarr_tmdb_lookup, sonarr_tvdb_lookup,
                 users_data, zero_watched, webVars, exit_status, unitVars>>

\* collect_data: radarr.test_connection(); sonarr.test_connection(): the results
\* are not read
TestConnections ==
  /\ pc = "test_connections"
  /\ \E radarr_ok \in Caught, sonarr_ok \in Caught :
       outcomes' = <<Call("test_connection", "radarr", radarr_ok),
                     Call("test_connection", "sonarr", sonarr_ok)>>
  /\ calls' = Count(calls, outcomes')
  /\ pc' = "get_users"
  /\ UNCHANGED <<envVars, console, collectVars, report, webVars, exit_status, unitVars>>

\* collect_data: jellyfin_users = self.jellyfin.get_users()  ([] when the call fails)
GetUsers ==
  /\ pc = "get_users"
  /\ \E outcome \in Caught, n \in 0..MaxUsers :
       /\ outcomes' = <<Call("get_users", "", outcome)>>
       /\ jellyfin_users' = SoftFail(outcome, ServerUsers(n))
  /\ calls' = Count(calls, outcomes')
  /\ pc' = "get_catalogs"
  /\ UNCHANGED <<envVars, console, access_token, radarr_tmdb_lookup, sonarr_tvdb_lookup,
                 users_data, zero_watched, report, webVars, exit_status, unitVars>>

\* collect_data: get_all_movies(), get_all_series() ([] when a call fails) and the
\* two lookup dictionaries
GetCatalogs ==
  /\ pc = "get_catalogs"
  /\ \E radarr_ok \in Caught, sonarr_ok \in Caught,
        radarr_movies \in {<<>>, RadarrCatalog}, sonarr_series \in {<<>>, SonarrCatalog} :
       /\ outcomes' = <<Call("get_all_movies", "", radarr_ok),
                        Call("get_all_series", "", sonarr_ok)>>
       /\ radarr_tmdb_lookup' = RadarrTmdbLookup(SoftFail(radarr_ok, radarr_movies))
       /\ sonarr_tvdb_lookup' = SonarrTvdbLookup(SoftFail(sonarr_ok, sonarr_series))
  /\ calls' = Count(calls, outcomes')
  /\ pc' = "users_loop"
  /\ UNCHANGED <<envVars, console, access_token, jellyfin_users, users_data, zero_watched,
                 report, webVars, exit_status, unitVars>>

RECURSIVE KeepParsed(_)
\* if series_info: user_data.watched_series.append(series_info)
KeepParsed(infos) ==
  IF infos = <<>> THEN <<>>
  ELSE (IF Head(infos) # None THEN <<Val(Head(infos))>> ELSE <<>>) \o KeepParsed(Tail(infos))

\* one pass of the body of: for user in jellyfin_users
UserWatchData(user, watched_movies, watched_series, fetched, radarr_lookup, sonarr_lookup) ==
  [user_id |-> user.Id,
   username |-> user.Name,
   watched_movies |->
     [i \in 1..Len(watched_movies) |-> ParseMovie(watched_movies[i], radarr_lookup)],
   watched_series |->
     KeepParsed([i \in 1..Len(watched_series) |->
                   ParseSeries(watched_series[i], fetched[i], sonarr_lookup)])]

\* collect_data: the loop body for the next user.  get_watched_movies returns some of
\* the library's movies, get_watched_series returns every series ([] when the call
\* fails), and each returned series has its episode fetch.
ProcessUser ==
  /\ pc = "users_loop"
  /\ Len(users_data) < Len(jellyfin_users)
  /\ LET user == jellyfin_users[Len(users_data) + 1]
     IN \E movies_ok \in Caught, series_ok \in Caught, movies \in SubSeqs(library.movies) :
          LET watched_movies == SoftFail(movies_ok, movies)
              watched_series == SoftFail(series_ok, library.series)
          IN \E episodes_ok \in [1..Len(watched_series) -> Caught],
                responses \in [1..Len(watched_series) -> EpisodeResponses] :
               LET fetched == [i \in 1..Len(watched_series) |->
                                 SoftFail(episodes_ok[i], responses[i])]
               IN /\ users_data' = Append(users_data,
                       UserWatchData(user, watched_movies, watched_series, fetched,
                                     radarr_tmdb_lookup, sonarr_tvdb_lookup))
                  /\ zero_watched' = Append(zero_watched,
                       {watched_series[i].Id : i \in {j \in 1..Len(watched_series) :
                            IsSeriesFullyWatched(fetched[j]).watched_count = 0}})
                  /\ outcomes' =
                       <<Call("get_watched_movies", user.Id, movies_ok),
                         Call("get_watched_series", user.Id, series_ok)>> \o
                       [i \in 1..Len(watched_series) |->
                          Call("get_series_episodes", watched_series[i].Id, episodes_ok[i])]
  /\ calls' = Count(calls, outcomes')
  /\ UNCHANGED <<pc, envVars, console, access_token, jellyfin_users, radarr_tmdb_lookup,
                 sonarr_tvdb_lookup, report, webVars, exit_status, unitVars>>

\* collect_data: report = self._generate_report(users_data); return report
ReturnReport ==
  /\ pc = "users_loop"
  /\ Len(users_data) = Len(jellyfin_users)
  /\ report' = Some(GenerateReport(users_data, ConfigUrls))
  /\ pc' = "set_report"
  /\ jellyfin_users' = <<>>
  /\ radarr_tmdb_lookup' = EmptyDict
  /\ sonarr_tvdb_lookup' = EmptyDict
  /\ users_data' = <<>>
  /\ outcomes' = <<>>
  /\ UNCHANGED <<envVars, calls, console, access_token, zero_watched, webVars, exit_status,
                 unitVars>>

\* the network calls after which an exception can leave collect_data at this point:
\* none (an exception that is not about a call), or calls ending in a response whose
\* body the code cannot read
RaisingTraces ==
  {<<>>} \cup
  (IF pc = "authenticate" THEN {<<Call("authenticate", "", "bad_body")>>}
   ELSE IF pc = "get_users" THEN {<<Call("get_users", "", "bad_body")>>}
   ELSE IF pc = "get_catalogs"
   THEN {<<Call("get_all_movies", "", "bad_body"), Call("get_all_series", "", o)>> :
           o \in Caught \cup {"bad_body"}}
        \cup {<<Call("get_all_movies", "", o), Call("get_all_series", "", "bad_body")>> :
                o \in Caught}
   ELSE IF pc = "users_loop" /\ Len(users_data) < Len(jellyfin_users)
   THEN LET id == jellyfin_users[Len(users_data) + 1].Id
        IN {<<Call("get_watched_movies", id, "bad_body")>>}
           \cup {<<Call("get_watched_movies", id, o), Call("get_watched_series", id, "bad_body")>> :
                   o \in Caught}
           \cup (IF library.series = <<>> THEN {}
                 ELSE {<<Call("get_watched_movies", id, o), Call("get_watched_series", id, "ok"),
                         Call("get_series_episodes", library.series[1].Id, "bad_body")>> :
                         o \in Caught})
   ELSE {})

\* an exception no client catches (a malformed response body, a missing field) leaves
\* collect_data: main's except Exception returns 1
CollectionRaises ==
  /\ pc \in {"authenticate", "test_connections", "get_users", "get_catalogs", "users_loop"}
  /\ \E trace \in RaisingTraces :
       Exit("Exception",
            IF pc = "authenticate" /\ trace # <<>> THEN Entered(calls, "collect_data")
            ELSE calls,
            trace)

\* mutant: set_report keeps what was stored before
StoreNothing(r) == current_report' = current_report

\* src/web/app.py set_report: current_report = report
StoreReport(r) == current_report' = Some(r)

\* main: set_report(report), the summary, jellyfin_client.close()
SetReport ==
  /\ pc = "set_report"
  /\ StoreReport(Val(report))
  /\ pc' = "start_server"
  /\ calls' = Entered(calls, "set_report")
  /\ outcomes' = <<>>
  /\ UNCHANGED <<envVars, console, collectVars, report, last_response, exit_status,
                 unitVars>>

\* main: run_web_server()
RunWebServer ==
  /\ pc = "start_server"
  /\ pc' = "serving"
  /\ calls' = Entered(calls, "run_web_server")
  /\ UNCHANGED <<envVars, outcomes, console, collectVars, report, webVars, exit_status,
                 unitVars>>

\* Ctrl+C.  Inside main's try block it is a KeyboardInterrupt: return 0.  While the
\* server runs, uvicorn takes the signal and shuts down; run_web_server() then raises
\* KeyboardInterrupt or returns, and main returns 0 or None
Interrupt ==
  /\ pc \notin {"exited", "web", "unit_episodes", "unit_catalog", "unit_lookup", "unit_merge",
               "unit_done"}
  /\ \E exception \in (IF pc = "serving" THEN {"KeyboardInterrupt", "none"}
                       ELSE {"KeyboardInterrupt"}) :
       Exit(exception, calls, <<>>)

\* ------------------------------------------------------------ src/web/app.py
\* mutant: a report without users counts as no report
ReportSetNonEmpty(stored) == stored # None /\ Val(stored).users # <<>>

\* the truth value of current_report: None is false, a Report object is true
ReportSet(stored) == stored # None

\* GET /: report_dict = current_report.model_dump() if current_report else None
IndexResponse(stored) ==
  [endpoint |-> "/",
   body |-> [template |-> "index.html",
             report |-> IF ReportSet(stored) THEN Some(ModelDump(Val(stored))) ELSE None]]

\* mutant: without a report the endpoint returns null data instead of the error
ApiReportNull(stored) ==
  [endpoint |-> "/api/report",
   body |-> IF ReportSet(stored) THEN ModelDump(Val(stored)) ELSE [report |-> None]]

\* GET /api/report
ApiReportResponse(stored) ==
  [endpoint |-> "/api/report",
   body |-> IF ReportSet(stored) THEN ModelDump(Val(stored))
            ELSE [error |-> "No report available"]]

\* GET /health
HealthResponse == [endpoint |-> "/health", body |-> [status |-> "ok"]]

Listening == pc \in {"serving", "web"}

GetIndex ==
  /\ Listening
  /\ last_response' = Some(IndexResponse(current_report))
  /\ UNCHANGED <<pc, envVars, traceVars, collectVars, report, current_report, exit_status, unitVars>>

GetApiReport ==
  /\ Listening
  /\ last_response' = Some(ApiReportResponse(current_report))
  /\ UNCHANGED <<pc, envVars, traceVars, collectVars, report, current_report, exit_status, unitVars>>

GetHealth ==
  /\ Listening
  /\ last_response' = Some(HealthResponse)
  /\ UNCHANGED <<pc, envVars, traceVars, collectVars, report, current_report, exit_status, unitVars>>

Next ==
  \/ LoadConfig
  \/ Authenticate
  \/ TestConnections
  \/ GetUsers
  \/ GetCatalogs
  \/ ProcessUser
  \/ ReturnReport
  \/ CollectionRaises
  \/ SetReport
  \/ RunWebServer
  \/ Interrupt
  \/ GetIndex
  \/ GetApiReport
  \/ GetHealth

\* One run of the process, from start to exit
Spec == Init /\ [][Next]_vars

\* ------------------------------------- is_series_fully_watched on its own
NoLibrary == [movies |-> <<>>, series |-> <<>>]

InitEpisodes ==
  /\ pc = "unit_episodes"
  /\ library = NoLibrary
  /\ config_files = "ok"
  /\ Fresh
  /\ episodes \in SeqsUpTo(EpisodeValues, MaxEpisodes + 2)
  /\ watch_status = None
  /\ catalog = <<>>
  /\ probe = None
  /\ parsed = None

\* is_series_fully_watched(series_id, user_id): get_series_episodes returns the
\* server's episode list, or [] when the fetch fails
CheckSeriesWatched ==
  /\ pc = "unit_episodes"
  /\ \E fetch_ok \in BOOLEAN :
       LET fetched == IF fetch_ok THEN episodes ELSE <<>>
       IN watch_status' = Some([fetched |-> fetched, status |-> IsSeriesFullyWatched(fetched)])
  /\ pc' = "unit_done"
  /\ UNCHANGED <<envVars, traceVars, collectVars, report, webVars, exit_status, episodes, catalog,
                 probe, parsed>>

NextEpisodes == CheckSeriesWatched

SpecEpisodes == InitEpisodes /\ [][NextEpisodes]_vars

\* ------------------------------- the catalog lookup and the parse on their own
\* identifiers a catalog item may carry: missing or null, zero, one or two digits
CatalogIds == {None, Some(0), Some(1), Some(12)}
RadarrItems == [tmdbId : CatalogIds, id : {Some(7), Some(8)}]
SonarrItems == [tvdbId : CatalogIds, id : {Some(7), Some(8)}]

\* identifiers a media-server item may carry in ProviderIds
ProbeIds == {None, Some(""), Some("0"), Some("1"), Some("01"), Some("12")}
MovieProbes ==
  {[kind |-> "movie",
    item |-> [Id |-> "m", Name |-> Some("a"), ProductionYear |-> None, Tmdb |-> t]] :
     t \in ProbeIds}
SeriesProbes ==
  {[kind |-> "series",
    item |-> [Id |-> "s", Name |-> Some("x"), ProductionYear |-> None, Tvdb |-> t]] :
     t \in ProbeIds}

InitCatalog ==
  /\ pc = "unit_catalog"
  /\ library = NoLibrary
  /\ config_files = "ok"
  /\ Fresh
  /\ episodes = <<>>
  /\ watch_status = None
  /\ parsed = None
  /\ \E p \in MovieProbes \cup SeriesProbes :
       /\ probe = Some(p)
       /\ catalog \in SeqsUpTo(IF p.kind = "movie" THEN RadarrItems ELSE SonarrItems,
                               MaxCatalog)

\* collect_data: the lookup dictionary built from the fetched catalog list
BuildLookup ==
  /\ pc = "unit_catalog"
  /\ IF Val(probe).kind = "movie"
     THEN /\ radarr_tmdb_lookup' = RadarrTmdbLookup(catalog)
          /\ sonarr_tvdb_lookup' = sonarr_tvdb_lookup
     ELSE /\ sonarr_tvdb_lookup' = SonarrTvdbLookup(catalog)
          /\ radarr_tmdb_lookup' = radarr_tmdb_lookup
  /\ pc' = "unit_lookup"
  /\ UNCHANGED <<envVars, traceVars, access_token, jellyfin_users, users_data, zero_watched, report,
                 webVars, exit_status, unitVars>>

\* _parse_movie / _parse_series of one item (a series with one played episode)
ParseProbe ==
  /\ pc = "unit_lookup"
  /\ parsed' = IF Val(probe).kind = "movie"
               THEN Some(ParseMovie(Val(probe).item, radarr_tmdb_lookup))
               ELSE ParseSeries(Val(probe).item, <<PlayedEpisode>>, sonarr_tvdb_lookup)
  /\ pc' = "unit_done"
  /\ UNCHANGED <<envVars, traceVars, collectVars, report, webVars, exit_status, episodes,
                 watch_status, catalog, probe>>

NextCatalog == BuildLookup \/ ParseProbe

SpecCatalog == InitCatalog /\ [][NextCatalog]_vars

\* ---------------------------------------------------- the web layer on its own
\* reports a caller of set_report may pass: Report() and the reports generated for
\* up to MaxUsers users over two movies
SampleReports ==
  {EmptyReport} \cup
  UNION {{GenerateReport(
            [u \in 1..n |-> UserWatchData(ServerUsers(n)[u], watched[u], <<>>, <<>>,
                                          EmptyDict, EmptyDict)],
            ConfigUrls) : watched \in [1..n -> SubSeqs(<<Movie1, Movie3>>)]} :
         n \in 0..MaxUsers}

InitWeb ==
  /\ pc = "web"
  /\ library = NoLibrary
  /\ config_files = "ok"
  /\ Fresh
  /\ Idle

\* set_report(report), called by whoever holds the module
WebSetReport ==
  /\ pc = "web"
  /\ \E r \in SampleReports : StoreReport(r)
  /\ UNCHANGED <<pc, envVars, traceVars, collectVars, report, last_response, exit_status, unitVars>>

NextWeb == WebSetReport \/ GetIndex \/ GetApiReport \/ GetHealth

SpecWeb == InitWeb /\ [][NextWeb]_vars

\* ------------------------------------------------ _generate_report on its own
\* titles and years of two watched entries: titles with and without the delimiter,
\* titles ending like a formatted year, a missing year
MergeTitles == {"a", "a1", "a_1", "a_None", "a_"}
MergeYears == {None, Some(1), Some(11)}

\* two watched movies (kind "movie") or two watched series (kind "series", each fully
\* or partially watched) under different identifiers
MergeItems(kind, fully) ==
  LET movie(id, title, year) ==
        [Id |-> "m" \o id, Name |-> Some(title), ProductionYear |-> year, Tmdb |-> Some(id)]
      show(id, title, year) ==
        [Id |-> "s" \o id, Name |-> Some(title), ProductionYear |-> year, Tvdb |-> Some(id)]
      played(i) == IF fully[i] THEN <<PlayedEpisode>> ELSE <<PlayedEpisode, UnplayedEpisode>>
  IN {[movies |-> IF kind = "movie" THEN <<movie("1", t1, y1), movie("2", t2, y2)>> ELSE <<>>,
       series |-> IF kind = "series" THEN <<show("1", t1, y1), show("2", t2, y2)>> ELSE <<>>,
       fetched |-> IF kind = "series" THEN <<played(1), played(2)>> ELSE <<>>] :
        t1 \in MergeTitles, t2 \in MergeTitles, y1 \in MergeYears, y2 \in MergeYears}

\* the user records holding the two entries: one user both, or two users one each
MergeUsersData(items, together) ==
  LET pick(s, i) == IF s = <<>> THEN <<>> ELSE <<s[i]>>
      record(u, movies, shows, fetched) ==
        UserWatchData(ServerUsers(2)[u], movies, shows, fetched, EmptyDict, EmptyDict)
  IN IF together
     THEN <<record(1, items.movies, items.series, items.fetched)>>
     ELSE [u \in 1..2 |-> record(u, pick(items.movies, u), pick(items.series, u),
                                  pick(items.fetched, u))]

InitMerge ==
  /\ pc = "unit_merge"
  /\ library = NoLibrary
  /\ config_files = "ok"
  /\ access_token = None
  /\ jellyfin_users = <<>>
  /\ radarr_tmdb_lookup = EmptyDict
  /\ sonarr_tvdb_lookup = EmptyDict
  /\ zero_watched = <<>>
  /\ report = None
  /\ current_report = None
  /\ last_response = None
  /\ exit_status = None
  /\ calls = NoCalls
  /\ outcomes = <<>>
  /\ console = None
  /\ Idle
  /\ \E kind \in {"movie", "series"}, fully \in [1..2 -> BOOLEAN], together \in BOOLEAN :
       /\ kind = "movie" => fully = [i \in 1..2 |-> TRUE]
       /\ \E items \in MergeItems(kind, fully) :
            users_data = MergeUsersData(items, together)

\* report = self._generate_report(users_data)
GenerateMerged ==
  /\ pc = "unit_merge"
  /\ report' = Some(GenerateReport(users_data, ConfigUrls))
  /\ pc' = "unit_done"
  /\ UNCHANGED <<envVars, traceVars, collectVars, webVars, exit_status, unitVars>>

NextMerge == GenerateMerged

SpecMerge == InitMerge /\ [][NextMerge]_vars

\* ------------------------------------------------------------ reading a report
\* collect_data has returned its report to main
Collected == report # None

TitleYear(item) == <<item.title, item.year>>

UsersOf(rep) == 1..Len(rep.users)

\* the objects a bucket lists, in order
MovieEntries(rep, bucket) == [i \in 1..Len(bucket) |-> MovieAt(rep, bucket[i])]
SeriesEntries(rep, bucket) == [i \in 1..Len(bucket) |-> SeriesAt(rep, bucket[i])]

\* the (title, year) pairs of a list of entries
TitleYears(entries) == {TitleYear(entries[i]) : i \in 1..Len(entries)}

\* the users holding at least one watched movie with this (title, year)
MovieWatchers(rep, ty) ==
  {u \in UsersOf(rep) :
     \E i \in 1..Len(rep.users[u].watched_movies) :
       TitleYear(rep.users[u].watched_movies[i]) = ty}

\* the users holding at least one watched series with this (title, year) and this
\* is_fully_watched flag
SeriesWatchers(rep, ty, fully) ==
  {u \in UsersOf(rep) :
     \E i \in 1..Len(rep.users[u].watched_series) :
       /\ TitleYear(rep.users[u].watched_series[i]) = ty
       /\ rep.users[u].watched_series[i].is_fully_watched = fully}

UserNames(rep, us) == {rep.users[u].username : u \in us}

Elems(list) == {list[i] : i \in 1..Len(list)}

\* the six buckets as lists of entries
MoviesAll(rep) == MovieEntries(rep, rep.movies_watched_by_all)
MoviesSome(rep) == MovieEntries(rep, rep.movies_watched_by_some)
FullyAll(rep) == SeriesEntries(rep, rep.series_fully_watched_by_all)
FullySome(rep) == SeriesEntries(rep, rep.series_fully_watched_by_some)
PartiallyAll(rep) == SeriesEntries(rep, rep.series_partially_watched_by_all)
PartiallySome(rep) == SeriesEntries(rep, rep.series_partially_watched_by_some)

\* ---------------------------------------------------------------------- claims
\* C1: in every report of _generate_report, a watched movie's (title, year) is in
\* movies_watched_by_all exactly when every user of the report holds a watched movie
\* with that (title, year), and in movies_watched_by_some otherwise: the count
\* compared with the number of users is the number of distinct users who watched it.
C1_MoviesFiledByDistinctUsers ==
  Collected =>
    LET rep == Val(report)
    IN \A u \in UsersOf(rep) : \A i \in 1..Len(rep.users[u].watched_movies) :
         LET ty == TitleYear(rep.users[u].watched_movies[i])
         IN IF MovieWatchers(rep, ty) = UsersOf(rep)
            THEN ty \in TitleYears(MoviesAll(rep)) /\ ty \notin TitleYears(MoviesSome(rep))
            ELSE ty \in TitleYears(MoviesSome(rep)) /\ ty \notin TitleYears(MoviesAll(rep))

\* C2: every entry of a "watched by all" bucket has as many watched_by_users as the
\* report has users, and every entry of a "watched by some" bucket has at least 1
\* and at most (number of users - 1).
C2_WatcherListLengths ==
  Collected =>
    LET rep == Val(report)
        total == Len(rep.users)
        byAll == MoviesAll(rep) \o FullyAll(rep) \o PartiallyAll(rep)
        bySome == MoviesSome(rep) \o FullySome(rep) \o PartiallySome(rep)
    IN /\ \A i \in 1..Len(byAll) : Len(byAll[i].watched_by_users) = total
       /\ \A i \in 1..Len(bySome) :
            /\ Len(bySome[i].watched_by_users) >= 1
            /\ Len(bySome[i].watched_by_users) <= total - 1

\* C3: in the finished report, the watched_by_users of every entry of a fully-watched
\* series bucket are exactly the usernames of the users who fully watched that
\* (title, year), and those of every entry of a partially-watched bucket exactly the
\* usernames of the users who partially watched it.
C3_SeriesWatchersPerGrouping ==
  Collected =>
    LET rep == Val(report)
        fully == FullyAll(rep) \o FullySome(rep)
        partially == PartiallyAll(rep) \o PartiallySome(rep)
    IN /\ \A i \in 1..Len(fully) :
            Elems(fully[i].watched_by_users) =
              UserNames(rep, SeriesWatchers(rep, TitleYear(fully[i]), TRUE))
       /\ \A i \in 1..Len(partially) :
            Elems(partially[i].watched_by_users) =
              UserNames(rep, SeriesWatchers(rep, TitleYear(partially[i]), FALSE))

\* C4: the two buckets of one partition (movies, fully watched series, partially
\* watched series) share no (title, year), and no bucket holds a (title, year) twice.
C4_BucketsExclusive ==
  Collected =>
    LET rep == Val(report)
        disjoint(a, b) == TitleYears(a) \cap TitleYears(b) = {}
        nodup(a) == Cardinality(TitleYears(a)) = Len(a)
    IN /\ disjoint(MoviesAll(rep), MoviesSome(rep))
       /\ disjoint(FullyAll(rep), FullySome(rep))
       /\ disjoint(PartiallyAll(rep), PartiallySome(rep))
       /\ nodup(MoviesAll(rep)) /\ nodup(MoviesSome(rep))
       /\ nodup(FullyAll(rep)) /\ nodup(FullySome(rep))
       /\ nodup(PartiallyAll(rep)) /\ nodup(PartiallySome(rep))

\* C4 witness: a report in which one (title, year) sits in a fully-watched bucket and
\* in a partially-watched bucket at once, next to a non-empty movie partition
C4_Witness ==
  /\ Collected
  /\ LET rep == Val(report)
     IN /\ TitleYears(FullyAll(rep) \o FullySome(rep))
             \cap TitleYears(PartiallyAll(rep) \o PartiallySome(rep)) # {}
        /\ MoviesAll(rep) # <<>>
        /\ MoviesSome(rep) # <<>>

\* the series buckets together
SeriesBucketEntries(rep) ==
  FullyAll(rep) \o FullySome(rep) \o PartiallyAll(rep) \o PartiallySome(rep)

\* the (title, year) a library series gets in a SeriesInfo
LibraryTitleYear(lib, sid) ==
  LET s == CHOOSE x \in Elems(lib.series) : x.Id = sid
  IN <<GetOr(s.Name, "Unknown"), s.ProductionYear>>

\* C5 as stated: when is_series_fully_watched returned a watched count of 0 for user
\* U and series S, S is not in U's watched_series and U's username is in the
\* watched_by_users of no series bucket entry for S (the entry carrying S's id).
C5_ZeroWatchedNeverListed ==
  Collected =>
    LET rep == Val(report)
    IN \A u \in UsersOf(rep) : \A sid \in zero_watched[u] :
         /\ \A i \in 1..Len(rep.users[u].watched_series) :
              rep.users[u].watched_series[i].jellyfin_id # sid
         /\ \A e \in Elems(SeriesBucketEntries(rep)) :
              e.jellyfin_id = sid => rep.users[u].username \notin Elems(e.watched_by_users)

\* C5 as amended: S is not in U's watched_series, and U's username is in the
\* watched_by_users of a series bucket entry with S's (title, year) only when U holds
\* another series of that (title, year) with a non-zero watched count.
C5_ZeroWatchedListedOnlyBySameTitleYear ==
  Collected =>
    LET rep == Val(report)
    IN \A u \in UsersOf(rep) : \A sid \in zero_watched[u] :
         /\ \A i \in 1..Len(rep.users[u].watched_series) :
              rep.users[u].watched_series[i].jellyfin_id # sid
         /\ \A e \in Elems(SeriesBucketEntries(rep)) :
              (/\ TitleYear(e) = LibraryTitleYear(library, sid)
               /\ rep.users[u].username \in Elems(e.watched_by_users))
              => \E i \in 1..Len(rep.users[u].watched_series) :
                   /\ TitleYear(rep.users[u].watched_series[i]) = TitleYear(e)
                   /\ rep.users[u].watched_series[i].jellyfin_id # sid
                   /\ rep.users[u].watched_series[i].watched_episodes > 0

\* C5 witness: a user with a zero-watched series that another user has watched; the
\* series is in a bucket and the first user is not among its watchers
C5_Witness ==
  /\ Collected
  /\ LET rep == Val(report)
     IN \E u \in UsersOf(rep) : \E sid \in zero_watched[u] :
          \E e \in Elems(SeriesBucketEntries(rep)) :
            /\ e.jellyfin_id = sid
            /\ e.watched_by_users # <<>>
            /\ rep.users[u].username \notin Elems(e.watched_by_users)

\* a report with no users and six empty buckets
AllEmpty(r) ==
  /\ r.users = <<>>
  /\ r.movies_watched_by_all = <<>> /\ r.movies_watched_by_some = <<>>
  /\ r.series_fully_watched_by_all = <<>> /\ r.series_fully_watched_by_some = <<>>
  /\ r.series_partially_watched_by_all = <<>> /\ r.series_partially_watched_by_some = <<>>

ParsedFlag == IF Val(probe).kind = "movie" THEN Val(parsed).in_radarr ELSE Val(parsed).in_sonarr
ParsedCatalogId ==
  IF Val(probe).kind = "movie" THEN Val(parsed).radarr_id ELSE Val(parsed).sonarr_id
ProbeId == IF Val(probe).kind = "movie" THEN Val(probe).item.Tmdb ELSE Val(probe).item.Tvdb
CatalogExtId(i) == IF Val(probe).kind = "movie" THEN catalog[i].tmdbId ELSE catalog[i].tvdbId
LookupKeys ==
  IF Val(probe).kind = "movie" THEN DOMAIN radarr_tmdb_lookup.map
  ELSE DOMAIN sonarr_tvdb_lookup.map

\* C7 as stated: in_radarr (in_sonarr) is true exactly when the item carries an
\* identifier and a catalog item has a non-null identifier whose string form equals
\* it; the catalog id is then such an item's id and is null otherwise; only catalog
\* items with a missing or null identifier are left out of the lookup map.
C7_FlagIffNonNullIdentifierMatches ==
  parsed # None =>
    LET matches == {i \in 1..Len(catalog) :
                      /\ ProbeId # None
                      /\ CatalogExtId(i) # None
                      /\ PyStr(CatalogExtId(i)) = Val(ProbeId)}
    IN /\ ParsedFlag <=> matches # {}
       /\ ParsedFlag => \E i \in matches : ParsedCatalogId = catalog[i].id
       /\ ~ParsedFlag => ParsedCatalogId = None
       /\ LookupKeys = {PyStr(CatalogExtId(i)) :
                          i \in {j \in 1..Len(catalog) : CatalogExtId(j) # None}}

\* C7 as amended: the same with "non-null and non-zero" for the catalog identifier:
\* catalog items whose identifier is missing, null or 0 are left out of the map.
C7_FlagIffNonZeroIdentifierMatches ==
  parsed # None =>
    LET kept == {i \in 1..Len(catalog) :
                   CatalogExtId(i) # None /\ Val(CatalogExtId(i)) # 0}
        matches == {i \in kept : ProbeId # None /\ PyStr(CatalogExtId(i)) = Val(ProbeId)}
    IN /\ ParsedFlag <=> matches # {}
       /\ ParsedFlag => \E i \in matches : ParsedCatalogId = catalog[i].id
       /\ ~ParsedFlag => ParsedCatalogId = None
       /\ LookupKeys = {PyStr(CatalogExtId(i)) : i \in kept}
       /\ catalog = <<>> => (~ParsedFlag /\ ParsedCatalogId = None)

\* C7 witness: an item found in a catalog that also holds an item left out of the map
C7_Witness ==
  /\ parsed # None
  /\ ParsedFlag
  /\ ParsedCatalogId # None
  /\ \E i \in 1..Len(catalog) : CatalogExtId(i) = Some(0)

\* the (title, year) pairs of a user's watched movies / series of one watch state
UserMovieTitleYears(rep, u) == TitleYears(rep.users[u].watched_movies)
UserSeriesTitleYears(rep, u, fully) ==
  {TitleYear(rep.users[u].watched_series[i]) :
     i \in {j \in 1..Len(rep.users[u].watched_series) :
              rep.users[u].watched_series[j].is_fully_watched = fully}}

\* C8: when all users of a non-empty user list hold the same set of watched movies
\* (by title and year), movies_watched_by_all holds exactly one entry per (title,
\* year) of the set and movies_watched_by_some is empty; the same for the fully
\* watched and for the partially watched series.
C8_IdenticalSetsAllWatchedByAll ==
  (Collected /\ Val(report).users # <<>>) =>
    LET rep == Val(report)
        same(tys(_)) == \A u \in UsersOf(rep) : tys(u) = tys(1)
        exact(by_all, by_some, tys) ==
          /\ TitleYears(by_all) = tys
          /\ Len(by_all) = Cardinality(tys)
          /\ by_some = <<>>
        movieTys(u) == UserMovieTitleYears(rep, u)
        fullTys(u) == UserSeriesTitleYears(rep, u, TRUE)
        partTys(u) == UserSeriesTitleYears(rep, u, FALSE)
    IN /\ same(movieTys) => exact(MoviesAll(rep), MoviesSome(rep), movieTys(1))
       /\ same(fullTys) => exact(FullyAll(rep), FullySome(rep), fullTys(1))
       /\ same(partTys) => exact(PartiallyAll(rep), PartiallySome(rep), partTys(1))

\* C9: is_series_fully_watched returns total = the number of fetched episodes,
\* watched = the number of them whose UserData has Played true, fully = (watched =
\* total and total > 0); an empty fetched list gives (false, 0, 0).
C9_WatchStatusCounts ==
  watch_status # None =>
    LET fetched == Val(watch_status).fetched
        status == Val(watch_status).status
        played == {i \in 1..Len(fetched) :
                     /\ fetched[i].UserData # None
                     /\ Val(fetched[i].UserData).Played = Some(TRUE)}
    IN /\ status.total_count = Len(fetched)
       /\ status.watched_count = Cardinality(played)
       /\ status.is_fully_watched <=>
            (Cardinality(played) = Len(fetched) /\ Len(fetched) > 0)
       /\ fetched = <<>> =>
            (~status.is_fully_watched /\ status.watched_count = 0 /\ status.total_count = 0)

\* C9 witness: a list of several episodes, one without a Played flag, not fully watched
C9_Witness ==
  /\ watch_status # None
  /\ Val(watch_status).status.total_count >= 3
  /\ Val(watch_status).status.watched_count >= 1
  /\ ~Val(watch_status).status.is_fully_watched
  /\ \E i \in 1..Len(episodes) : episodes[i].UserData = None

\* C10: every request is answered from the stored report and leaves it alone: with no
\* report set, GET /api/report returns the error object and GET / renders a null
\* report; with report r set they return the dump of r; GET /health returns
\* {"status": "ok"} either way; a set report is never unset.
C10_EndpointsFollowStoredReport ==
  [][/\ GetApiReport =>
          Val(last_response').body =
            IF current_report = None THEN [error |-> "No report available"]
            ELSE ModelDump(Val(current_report))
     /\ GetIndex =>
          Val(last_response').body.report =
            IF current_report = None THEN None ELSE Some(ModelDump(Val(current_report)))
     /\ GetHealth => Val(last_response').body = [status |-> "ok"]
     /\ (GetApiReport \/ GetIndex \/ GetHealth) => current_report' = current_report
     /\ current_report # None => current_report' # None]_vars

\* C10 witness: a report with a filled bucket is stored and GET /api/report has
\* returned its dump
C10_Witness ==
  /\ pc = "web"
  /\ current_report # None
  /\ Val(current_report).movies_watched_by_all # <<>>
  /\ last_response = Some([endpoint |-> "/api/report",
                           body |-> ModelDump(Val(current_report))])

\* the body GET / and GET /api/report return for a stored report
ServedBody(response) ==
  IF response.endpoint = "/" THEN response.body.report
  ELSE IF response.endpoint = "/api/report" THEN Some(response.body)
  ELSE None

\* C11: in a run that reaches serving, collect_data and set_report have each been
\* called exactly once and have returned before run_web_server is called and before
\* any request is answered; from then on the stored report is the report collect_data
\* returned and no step of the serving process changes it, so every answer of GET /
\* and GET /api/report carries the dump of that one report.
C11_ReportBuiltOnceBeforeServing ==
  [][/\ pc' \in {"start_server", "serving"} =>
          /\ calls'["collect_data"] = 1
          /\ calls'["set_report"] = 1
          /\ calls'["run_web_server"] = (IF pc' = "serving" THEN 1 ELSE 0)
          /\ report' # None
          /\ current_report' = report'
     /\ pc' \notin {"serving", "exited"} => last_response' = None
     /\ calls'["run_web_server"] <= calls'["set_report"]
     /\ calls'["set_report"] <= calls'["collect_data"]
     /\ calls'["collect_data"] <= 1
     /\ (pc = "serving" /\ pc' = "serving") =>
          /\ current_report' = current_report
          /\ report' = report
          /\ calls' = calls
          /\ ServedBody(Val(last_response')) \in {None, Some(ModelDump(Val(current_report)))}]_vars

\* C11 witness: the server has answered GET / with the dump of a report with users,
\* after one collect_data and one set_report
C11_Witness ==
  /\ pc = "serving"
  /\ calls["collect_data"] = 1 /\ calls["set_report"] = 1
  /\ Val(report).users # <<>>
  /\ last_response # None
  /\ Val(last_response).endpoint = "/"
  /\ Val(last_response).body.report = Some(ModelDump(Val(current_report)))

\* C12: with a configuration file missing or invalid, no network call is made and the
\* server is not started, and the process ends with status 1 unless it is interrupted
\* first; the FileNotFoundError handler is reached only for a missing file; an
\* exception during collection ends the run with status 1 and the server was never
\* started; an interrupt ends the run with status 0.
C12_ExitStatuses ==
  /\ config_files # "ok" =>
       /\ pc \in {"load_config", "exited"}
       /\ calls = NoCalls
       /\ (pc = "exited" /\ console # Some("Shutting down...")) => exit_status = Some(1)
  /\ (pc = "exited" /\ console = Some("Please create the required configuration files.")) =>
       /\ config_files = "missing"
       /\ exit_status = Some(1)
  /\ (pc = "exited" /\ console = Some("An error occurred")) =>
       /\ exit_status = Some(1)
       /\ calls["run_web_server"] = 0
       /\ config_files = "ok" => calls["collect_data"] <= 1
  /\ (pc = "exited" /\ console \in {None, Some("Shutting down...")}) =>
       exit_status = Some(0)
  /\ pc # "exited" => exit_status = None

\* C12 witness: the run ended with status 1 on a missing configuration file
C12_Witness ==
  /\ pc = "exited"
  /\ config_files = "missing"
  /\ exit_status = Some(1)
  /\ console = Some("Please create the required configuration files.")
  /\ calls = NoCalls

\* what a step that issued the call c left behind is the result of an empty answer
EmptyResult(c) ==
  LET user_data == users_data'[Len(users_data')]
  IN /\ c.call = "get_users" => jellyfin_users' = <<>>
     /\ c.call = "get_all_movies" => radarr_tmdb_lookup' = EmptyDict
     /\ c.call = "get_all_series" => sonarr_tvdb_lookup' = EmptyDict
     /\ c.call = "get_watched_movies" => user_data.watched_movies = <<>>
     /\ c.call = "get_watched_series" =>
          /\ user_data.watched_series = <<>>
          /\ \A j \in 1..Len(outcomes') : outcomes'[j].call # "get_series_episodes"
     /\ c.call = "get_series_episodes" =>
          /\ c.arg \in zero_watched'[Len(zero_watched')]
          /\ \A j \in 1..Len(user_data.watched_series) :
               user_data.watched_series[j].jellyfin_id # c.arg

\* C13: after a successful authentication, a later call that does not end well (list
\* users, list watched movies, list series, list episodes, reachability probe, catalog
\* list) is made once and not again, collection goes on with an empty result in its
\* place, collect_data returns a report, and a report for no users has six empty
\* buckets.
C13_FailedCallsDegrade ==
  [][/\ \A i \in 1..Len(outcomes') :
          (calls' # calls /\ outcomes'[i].outcome # "ok"
           /\ outcomes'[i].call # "authenticate") =>
            /\ pc' # "exited"
            /\ EmptyResult(outcomes'[i])
            /\ \A j \in 1..Len(outcomes') :
                 (outcomes'[j].call = outcomes'[i].call /\ outcomes'[j].arg = outcomes'[i].arg)
                   => j = i
     /\ (pc = "users_loop" /\ pc' = "set_report") =>
          /\ report' # None
          /\ Val(report').users = <<>> => AllEmpty(Val(report'))]_vars

\* every watched movie of the report's users, and every watched series with this
\* is_fully_watched flag
WatchedMovies(rep) == Flatten([u \in 1..Len(rep.users) |-> rep.users[u].watched_movies])
WatchedSeries(rep, fully) ==
  SelectSeq(Flatten([u \in 1..Len(rep.users) |-> rep.users[u].watched_series]),
            LAMBDA s : s.is_fully_watched = fully)

\* the entries of one grouping are merged by (title, year): the grouping dict has one
\* key per (title, year) of the watched entries, the list under an entry's key has one
\* username per watched entry with its (title, year), and the buckets of the grouping
\* hold one entry per (title, year)
MergedByTitleYear(watched, watchers, entries) ==
  /\ Len(watchers.order) = Cardinality(TitleYears(watched))
  /\ \A i \in 1..Len(watched) :
       /\ HasKey(watchers, ItemKey(watched[i]))
       /\ Len(watchers.map[ItemKey(watched[i])]) =
            Cardinality({j \in 1..Len(watched) : TitleYear(watched[j]) = TitleYear(watched[i])})
  /\ TitleYears(entries) = TitleYears(watched)
  /\ Len(entries) = Cardinality(TitleYears(watched))

\* C14: _generate_report merges two watched entries of one grouping (movies; fully
\* watched series; partially watched series) into one group exactly when their titles
\* are equal and their years are equal, two missing years being equal; this holds for
\* titles containing "_" and for entries whose identifiers differ.
C14_MergedIffSameTitleAndYear ==
  (Collected /\ Val(report).users # <<>>) =>
    LET rep == Val(report)
        gm == GroupMovies(rep.users, MovieRefs(rep.users),
                [movie_watchers |-> EmptyDict, movie_data |-> EmptyDict])
        gs == GroupSeries(rep.users, SeriesRefs(rep.users),
                [series_watchers_full |-> EmptyDict, series_watchers_partial |-> EmptyDict,
                 series_data |-> EmptyDict])
    IN /\ MergedByTitleYear(WatchedMovies(rep), gm.movie_watchers,
                            MoviesAll(rep) \o MoviesSome(rep))
       /\ MergedByTitleYear(WatchedSeries(rep, TRUE), gs.series_watchers_full,
                            FullyAll(rep) \o FullySome(rep))
       /\ MergedByTitleYear(WatchedSeries(rep, FALSE), gs.series_watchers_partial,
                            PartiallyAll(rep) \o PartiallySome(rep))

\* C14 witness: two users' movies with different identifiers, the same title
\* containing "_" and both years missing, merged into one entry with two watchers
C14_Witness ==
  /\ Collected
  /\ LET rep == Val(report)
     IN /\ Len(rep.users) = 2
        /\ \A u \in 1..2 : Len(rep.users[u].watched_movies) = 1
        /\ rep.users[1].watched_movies[1].title = "a_1"
        /\ rep.users[2].watched_movies[1].title = "a_1"
        /\ rep.users[1].watched_movies[1].year = None
        /\ rep.users[2].watched_movies[1].year = None
        /\ rep.users[1].watched_movies[1].jellyfin_id # rep.users[2].watched_movies[1].jellyfin_id
        /\ Len(MoviesAll(rep)) = 1 /\ MoviesSome(rep) = <<>>
        /\ Len(MoviesAll(rep)[1].watched_by_users) = 2

\* C15: every entry of series_fully_watched_by_all and series_fully_watched_by_some
\* has is_fully_watched true with watched_episodes = total_episodes > 0, and every
\* entry of series_partially_watched_by_all and series_partially_watched_by_some has
\* is_fully_watched false, also when users differ in their watch state of one
\* (title, year).
C15_BucketFlagsMatchPartition ==
  Collected =>
    LET rep == Val(report)
        fully == FullyAll(rep) \o FullySome(rep)
        partially == PartiallyAll(rep) \o PartiallySome(rep)
    IN /\ \A i \in 1..Len(fully) :
            /\ fully[i].is_fully_watched
            /\ fully[i].watched_episodes = fully[i].total_episodes
            /\ fully[i].total_episodes > 0
       /\ \A i \in 1..Len(partially) : ~partially[i].is_fully_watched

====
